---- MODULE Spec2Model ----
(***************************************************************************)
(* A model of stat_sim's empirical-distribution data model                 *)
(* (js/HistogramData.js), its resampling engine (js/Sampling.js) and the   *)
(* editable histogram that owns a distribution (js/Histogram.js).          *)
(*                                                                         *)
(* JavaScript numbers are modelled as exact extended rationals: a record   *)
(* [n, d] in lowest terms with d > 0, or d = 0 for the non-finite values   *)
(* (0/0 is NaN, 1/0 is Infinity, -1/0 is -Infinity).  Floating-point       *)
(* rounding error and the sign of zero are not modelled.                   *)
(***************************************************************************)
EXTENDS Integers, Sequences, FiniteSets, TLC

VARIABLES
    histogramData,      \* the HistogramData object a histogram displays
    samples,            \* AnimatedHistogram.samples, the data points still to animate in
    animating,          \* AnimatedHistogram.animating
    animationCompletionCallback, \* AnimatedHistogram.animationCompletionCallback
    animationsInFlight, \* bar animations started whose completion has not run yet
    histogram1,         \* Sampling.histogram1.histogramData, the parent population
    sampleValues,       \* Sampling.sampleValues, the running log of drawn values
    selectDistribution, \* $('select[name=distribution]').val()
    random,             \* the numbers Math.random() returns next, in order
    result              \* the last operation performed, its arguments and its outcome

vars == <<histogramData, samples, animating, animationCompletionCallback,
          animationsInFlight, histogram1, sampleValues, selectDistribution, random,
          result>>

----------------------------------------------------------------------------
(* Bounds of the model.                                                    *)

\* the longest sequence of raw data points handed to makeWithDataPoints
MaxPoints == 2
\* the longest sequence of raw data points in new data that is combined
MaxNewPoints == 1
\* the largest frequency set by one edit or given to the constructor
MaxFrequency == 1
\* the most observations a distribution accumulates by combining
MaxObservations == 3
\* the longest sequence of data points passed to one animateInData call
MaxAnimated == 2
\* the most bar animations in flight at once
MaxInFlight == 2
\* the largest sampleSize asked of sample and sampleMany
MaxSampleSize == 2
\* the largest numberOfSamples asked of sampleMany
MaxNumberOfSamples == 2
\* the longest the log of drawn values grows before it is reset
MaxLog == 4
\* the longest log over which edits of the parent population are explored
MaxEditedLog == 0
\* the largest frequency of a bin of a distribution whose statistics are read
MaxBinFrequency == 2
\* the longest array handed to a function of StatisticsFunctions
MaxValues == 4
\* the largest |z| handed to zprob
MaxZ == 8

----------------------------------------------------------------------------
(* Numbers.                                                                *)

Abs(i) == IF i < 0 THEN -i ELSE i

Sign(i) == IF i < 0 THEN -1 ELSE IF i > 0 THEN 1 ELSE 0

RECURSIVE GCD(_, _)
GCD(i, j) == IF j = 0 THEN i ELSE GCD(j, i % j)

\* the number num/den; den = 0 gives NaN, Infinity or -Infinity
Rat(num, den) ==
    IF den = 0 THEN [n |-> Sign(num), d |-> 0]
    ELSE LET g == GCD(Abs(num), Abs(den))
         IN  [n |-> (Sign(den) * num) \div g, d |-> Abs(den) \div g]

R(i) == [n |-> i, d |-> 1]

NaN == [n |-> 0, d |-> 0]

\* a missing argument; like NaN it is falsy and is never read as a number
Undefined == NaN

IsNaN(x) == x.d = 0 /\ x.n = 0

IsFinite(x) == x.d > 0

\* x + y
RAdd(x, y) ==
    IF x.d = 0 /\ y.d = 0 THEN (IF x.n = y.n THEN x ELSE NaN)
    ELSE LET g == GCD(x.d, y.d)
         IN  Rat(x.n * (y.d \div g) + y.n * (x.d \div g), (x.d \div g) * y.d)

\* -x
RNeg(x) == [n |-> -x.n, d |-> x.d]

\* x - y
RSub(x, y) == RAdd(x, RNeg(y))

\* x * y
RMul(x, y) ==
    IF x.d = 0 \/ y.d = 0 THEN Rat(x.n * y.n, x.d * y.d)
    ELSE LET g1 == GCD(Abs(x.n), y.d)
             g2 == GCD(Abs(y.n), x.d)
         IN  Rat((x.n \div g1) * (y.n \div g2), (x.d \div g2) * (y.d \div g1))

\* x / y
RDiv(x, y) ==
    IF y.n = 0 THEN RMul(x, [n |-> IF y.d = 0 THEN 0 ELSE 1, d |-> 0])
    ELSE RMul(x, Rat(Sign(y.n) * y.d, Abs(y.n)))

\* x < y; false when either is NaN
RLt(x, y) ==
    /\ ~IsNaN(x)
    /\ ~IsNaN(y)
    /\ IF x.d = 0 \/ y.d = 0
       THEN \/ x.d = 0 /\ x.n < 0 /\ ~(y.d = 0 /\ y.n < 0)
            \/ y.d = 0 /\ y.n > 0 /\ ~(x.d = 0 /\ x.n > 0)
       ELSE x.n * y.d < y.n * x.d

\* x === y on numbers; false when either is NaN
REq(x, y) == ~IsNaN(x) /\ ~IsNaN(y) /\ x = y

\* x <= y; false when either is NaN
RLe(x, y) == RLt(x, y) \/ REq(x, y)

\* !x
Falsy(x) == x.n = 0

\* a slip that takes Math.floor(x) instead
MathRoundDown(x) ==
    IF x.d = 0 THEN x ELSE R(x.n \div x.d)

\* Math.round(x): the nearest integer, a tie going up
MathRound(x) ==
    IF x.d = 0 THEN x ELSE R((2 * x.n + x.d) \div (2 * x.d))

\* a slip that takes Math.ceil(x) instead
MathCeiling(x) == IF x.d = 0 THEN x ELSE R(-((-x.n) \div x.d))

\* Math.floor(x)
MathFloor(x) == IF x.d = 0 THEN x ELSE R(x.n \div x.d)

\* the largest integer whose square is at most i
Isqrt(i) == CHOOSE r \in 0..i : r * r <= i /\ (r + 1) * (r + 1) > i

\* Math.sqrt(x): NaN below zero, the exact root of a square, and otherwise
\* the root rounded down to a sixteenth
MathSqrt(x) ==
    IF IsNaN(x) \/ x.n < 0 THEN NaN
    ELSE IF x.d = 0 THEN x
    ELSE IF Isqrt(x.n) * Isqrt(x.n) = x.n /\ Isqrt(x.d) * Isqrt(x.d) = x.d
    THEN Rat(Isqrt(x.n), Isqrt(x.d))
    ELSE Rat(Isqrt((256 * x.n) \div x.d), 16)

RECURSIVE MathPow(_, _)
\* Math.pow(x, k) for a whole exponent k >= 0
MathPow(x, k) == IF k = 0 THEN R(1) ELSE RMul(MathPow(x, k - 1), x)

\* Math.max(x, y)
MathMax(x, y) ==
    IF IsNaN(x) \/ IsNaN(y) THEN NaN ELSE IF RLt(x, y) THEN y ELSE x

\* Math.min(x, y)
MathMin(x, y) ==
    IF IsNaN(x) \/ IsNaN(y) THEN NaN ELSE IF RLt(y, x) THEN y ELSE x

----------------------------------------------------------------------------
(* HistogramData.                                                          *)

\* values[i], frequencies[i] with the 0-based index of the source
At(array, i) == array[i + 1]

\* is i (a number) an index of an array of this length
IsIndex(i, length) == i.d = 1 /\ i.n >= 0 /\ i.n < length

numberOfBins(this) == Len(this.values)

RECURSIVE SumValueFrequency(_, _, _)
\* sum += value * frequency over bins 0 .. numberOfBins-1
SumValueFrequency(values, frequencies, k) ==
    IF k = 0 THEN R(0)
    ELSE RAdd(SumValueFrequency(values, frequencies, k - 1),
              RMul(values[k], R(frequencies[k])))

RECURSIVE SumSquareFrequency(_, _, _)
\* sumOfSquares += value * value * frequency over bins 0 .. numberOfBins-1
SumSquareFrequency(values, frequencies, k) ==
    IF k = 0 THEN R(0)
    ELSE RAdd(SumSquareFrequency(values, frequencies, k - 1),
              RMul(RMul(values[k], values[k]), R(frequencies[k])))

computeSums(this) ==
    [this EXCEPT
        !.sum = SumValueFrequency(this.values, this.frequencies, numberOfBins(this)),
        !.sumOfSquares = SumSquareFrequency(this.values, this.frequencies, numberOfBins(this))]

\* new HistogramData(values, frequencies, sum, sumOfSquares)
HistogramData(values, frequencies, sum, sumOfSquares) ==
    LET this == [values |-> values, frequencies |-> frequencies,
                 sum |-> sum, sumOfSquares |-> sumOfSquares]
    IN  IF Falsy(sum) /\ Falsy(sumOfSquares) THEN computeSums(this) ELSE this

\* a slip that returns the rounded index without clamping it
binIndexForDataPointUnclamped(dataPoint, binValues) ==
    LET step == RSub(binValues[2], binValues[1])
    IN  MathRound(RDiv(RSub(dataPoint, binValues[1]), step))

binIndexForDataPoint(dataPoint, binValues) ==
    LET step == RSub(binValues[2], binValues[1])
        binIndex == MathRound(RDiv(RSub(dataPoint, binValues[1]), step))
    IN  MathMin(MathMax(binIndex, R(0)), R(Len(binValues) - 1))

\* frequencies[binIndex]++ ; an index that is no index of the array leaves
\* every element of the array as it was
Increment(frequencies, binIndex) ==
    IF IsIndex(binIndex, Len(frequencies))
    THEN [frequencies EXCEPT ![binIndex.n + 1] = @ + 1]
    ELSE frequencies

RECURSIVE BinPoints(_, _, _)
\* the loop of makeWithDataPoints over datapoints[0 .. k-1]
BinPoints(datapoints, binValues, k) ==
    IF k = 0
    THEN [frequencies |-> [i \in 1..Len(binValues) |-> 0],
          sum |-> R(0), sumOfSquares |-> R(0)]
    ELSE LET acc == BinPoints(datapoints, binValues, k - 1)
             dataPoint == datapoints[k]
             binIndex == binIndexForDataPoint(dataPoint, binValues)
         IN  [frequencies |-> Increment(acc.frequencies, binIndex),
              sum |-> RAdd(acc.sum, dataPoint),
              sumOfSquares |-> RAdd(acc.sumOfSquares, RMul(dataPoint, dataPoint))]

makeWithDataPoints(datapoints, binValues) ==
    LET acc == BinPoints(datapoints, binValues, Len(datapoints))
    IN  HistogramData(binValues, acc.frequencies, acc.sum, acc.sumOfSquares)

makeEmpty(binValues) ==
    HistogramData(binValues, [i \in 1..Len(binValues) |-> 0], R(0), R(0))

RECURSIVE numberOfObservationsUpTo(_, _)
numberOfObservationsUpTo(frequencies, k) ==
    IF k = 0 THEN 0 ELSE numberOfObservationsUpTo(frequencies, k - 1) + frequencies[k]

numberOfObservations(this) ==
    numberOfObservationsUpTo(this.frequencies, Len(this.frequencies))

\* the outcome of a call: a returned value or a thrown message
Return(v) == [thrown |-> "", value |-> v]

Throw(message) == [thrown |-> message]

Returned(r) == r.thrown = ""

\* a slip that pushes histogramData1.frequencies[i] alone
CombinedFrequencyFirstOnly(frequency1, frequency2) == frequency1

\* a slip that adds histogramData1.frequencies[i] twice
CombinedFrequencyFirstTwice(frequency1, frequency2) == frequency1 + frequency1 + frequency2

\* newFrequencies.push(histogramData1.frequencies[i] + histogramData2.frequencies[i])
CombinedFrequency(frequency1, frequency2) == frequency1 + frequency2

\* a slip that compares the first bin value only
scaleSameFirstBin(histogramData1, histogramData2) ==
    REq(At(histogramData1.values, 0), At(histogramData2.values, 0))

\* the loop that compares the bin values of two distributions of equal size
scaleSame(histogramData1, histogramData2) ==
    \A i \in 0..(numberOfBins(histogramData1) - 1) :
        REq(At(histogramData1.values, i), At(histogramData2.values, i))

makeByCombiningData(histogramData1, histogramData2) ==
    LET numberOfBins1 == numberOfBins(histogramData1)
        numberOfBins2 == numberOfBins(histogramData2)
        newFrequencies == [i \in 1..numberOfBins1 |->
                             CombinedFrequency(histogramData1.frequencies[i],
                                               histogramData2.frequencies[i])]
        sum == RAdd(histogramData1.sum, histogramData2.sum)
        sumOfSquares == RAdd(histogramData1.sumOfSquares, histogramData2.sumOfSquares)
    IN  IF numberOfBins1 # numberOfBins2
        THEN Throw("Attempt to merge two histograms of different size")
        ELSE IF ~scaleSame(histogramData1, histogramData2)
        THEN Throw("Attempt to merge two histograms of different scale")
        ELSE Return(HistogramData(histogramData1.values, newFrequencies, sum, sumOfSquares))

\* HistogramData.prototype.step
HistogramData_step(this) == RSub(At(this.values, 1), At(this.values, 0))

\* a slip that answers 0 for a distribution without observations
HistogramData_meanGuarded(this) ==
    IF numberOfObservations(this) = 0 THEN R(0)
    ELSE RDiv(this.sum, R(numberOfObservations(this)))

\* HistogramData.prototype.mean
HistogramData_mean(this) == RDiv(this.sum, R(numberOfObservations(this)))

RECURSIVE MedianScan(_, _, _, _, _)
\* the loop of HistogramData.prototype.median from bin i on, nc being the
\* observations counted in the bins before it
MedianScan(this, RR, IR, i, nc) ==
    IF i >= numberOfBins(this) THEN R(0)
    ELSE LET counted == nc + At(this.frequencies, i)
         IN  IF REq(R(counted), IR)
             THEN IF i + 1 < numberOfBins(this)
                  THEN RAdd(At(this.values, i),
                            RMul(RSub(RR, IR),
                                 RSub(At(this.values, i + 1), At(this.values, i))))
                  ELSE At(this.values, i)
             ELSE IF RLt(IR, R(counted))
             THEN At(this.values, i)
             ELSE MedianScan(this, RR, IR, i + 1, counted)

\* HistogramData.prototype.median
HistogramData_median(this) ==
    LET RR == RMul(Rat(1, 2), R(numberOfObservations(this) + 1))
        IR == MathFloor(RR)
    IN  MedianScan(this, RR, IR, 0, 0)

\* HistogramData.prototype.standardDeviation
HistogramData_standardDeviation(this) ==
    LET n == R(numberOfObservations(this))
    IN  MathSqrt(RDiv(RSub(this.sumOfSquares, RDiv(RMul(this.sum, this.sum), n)), n))

RECURSIVE SumPowers(_, _, _, _)
\* sq += Math.pow(values[i] - mean, power) * frequencies[i] over bins 0 .. k-1
SumPowers(this, mean_, power, k) ==
    IF k = 0 THEN R(0)
    ELSE RAdd(SumPowers(this, mean_, power, k - 1),
              RMul(MathPow(RSub(this.values[k], mean_), power), R(this.frequencies[k])))

\* a slip that divides without the guard on sd and the number of observations
skewUnguarded(this, mean_, sd) ==
    RDiv(RDiv(SumPowers(this, mean_, 3, numberOfBins(this)),
              R(numberOfObservations(this))),
         MathPow(sd, 3))

\* HistogramData.prototype.skew
skew(this, mean_, sd) ==
    LET sq == SumPowers(this, mean_, 3, numberOfBins(this))
        n == numberOfObservations(this)
    IN  IF REq(sd, R(0)) \/ n < 2 THEN R(0)
        ELSE RDiv(RDiv(sq, R(n)), MathPow(sd, 3))

\* HistogramData.prototype.minValue
minValue(this) ==
    LET filled == { i \in 1..Len(this.frequencies) : this.frequencies[i] > 0 }
    IN  IF filled = {} THEN R(0)
        ELSE this.values[CHOOSE i \in filled : \A j \in filled : i <= j]

\* HistogramData.prototype.maxValue
maxValue(this) ==
    LET filled == { i \in 1..Len(this.frequencies) : this.frequencies[i] > 0 }
    IN  IF filled = {} THEN R(0)
        ELSE this.values[CHOOSE i \in filled : \A j \in filled : i >= j]

\* HistogramData.prototype.range
HistogramData_range(this) ==
    IF numberOfObservations(this) < 2 THEN R(0)
    ELSE RSub(maxValue(this), minValue(this))

\* HistogramData.prototype.kurtosis
kurtosis(this, mean_, sd) ==
    LET sq == SumPowers(this, mean_, 4, numberOfBins(this))
        n == numberOfObservations(this)
    IN  IF REq(sd, R(0)) \/ n < 2 THEN R(0)
        ELSE RSub(RDiv(RDiv(sq, R(n)), MathPow(sd, 4)), R(3))

\* new Stats(...)
Stats(n, mean_, median_, sd, range_, skew_, MAD, variance_, kurtosis_, varianceu) ==
    [numberOfObservations |-> n, mean |-> mean_, median |-> median_, sd |-> sd,
     range |-> range_, skew |-> skew_, MAD |-> MAD, variance |-> variance_,
     kurtosis |-> kurtosis_, varianceu |-> varianceu]

\* HistogramData.prototype.getStatistics
getStatistics(this) ==
    LET mean_ == HistogramData_mean(this)
        sd == HistogramData_standardDeviation(this)
    IN  Stats(R(numberOfObservations(this)), mean_, HistogramData_median(this),
              HistogramData_standardDeviation(this), HistogramData_range(this),
              skew(this, mean_, sd), Undefined, RMul(sd, sd),
              kurtosis(this, mean_, sd), Undefined)

----------------------------------------------------------------------------
(* Histogram: the in-place edit of the distribution a histogram displays.  *)

\* a slip that notifies every observer twice
notifyObserversOfChangeTwice(observers, data) ==
    [i \in 1..(2 * Len(observers)) |->
        [observer |-> observers[((i - 1) % Len(observers)) + 1],
         histogramData |-> data]]

\* Histogram.prototype.notifyObserversOfChange: each registered observer, in
\* the order of registration, is called with the histogram, whose data is
\* data at that moment
notifyObserversOfChange(observers, data) ==
    [i \in 1..Len(observers) |->
        [observer |-> observers[i], histogramData |-> data]]

\* the observer Sampling.prototype.setupHistograms registers on a histogram
RegisteredObservers == <<"changeStats">>

\* this.histogramData.frequencies[index] = newValue, for index >= 0: an
\* assignment past the end of the array lengthens it
AssignFrequency(frequencies, index, newValue) ==
    [k \in 1..(IF index + 1 > Len(frequencies) THEN index + 1 ELSE Len(frequencies)) |->
        IF k = index + 1 THEN newValue
        ELSE IF k <= Len(frequencies) THEN frequencies[k] ELSE 0]

\* a slip that lets the index one past the last bin through
updateValueAtIndexPastEnd(this, index, newValue) ==
    IF index < 0 \/ index > numberOfBins(this)
    THEN this
    ELSE computeSums([this EXCEPT !.frequencies = AssignFrequency(@, index, newValue)])

\* Histogram.prototype.updateValueAtIndex, on the histogram's data
updateValueAtIndex(this, index, newValue) ==
    IF index < 0 \/ index >= numberOfBins(this)
    THEN this
    ELSE computeSums([this EXCEPT !.frequencies = AssignFrequency(@, index, newValue)])

\* the observers Histogram.prototype.updateValueAtIndex notifies, each with
\* the data it then finds
updateValueAtIndexNotified(this, index, newValue, observers) ==
    IF index < 0 \/ index >= numberOfBins(this)
    THEN <<>>
    ELSE notifyObserversOfChange(observers, updateValueAtIndex(this, index, newValue))

----------------------------------------------------------------------------
(* StatisticsFunctions: statistics of an array of data points.             *)

\* array[i] with the 0-based index of the source; undefined outside the array
Read(array, i) == IF i >= 0 /\ i < Len(array) THEN array[i + 1] ELSE Undefined

RECURSIVE SumOfValues(_, _)
\* sum += value over values[0 .. k-1]
SumOfValues(values, k) ==
    IF k = 0 THEN R(0) ELSE RAdd(SumOfValues(values, k - 1), values[k])

\* StatisticsFunctions.mean
mean(values) == RDiv(SumOfValues(values, Len(values)), R(Len(values)))

RECURSIVE InsertAscending(_, _)
InsertAscending(sorted, x) ==
    IF sorted = <<>> THEN <<x>>
    ELSE IF RLt(x, Head(sorted)) THEN <<x>> \o sorted
    ELSE <<Head(sorted)>> \o InsertAscending(Tail(sorted), x)

RECURSIVE SortAscending(_, _)
\* values.sort(function(a,b) {return a - b;}) of values[0 .. k-1]
SortAscending(values, k) ==
    IF k = 0 THEN <<>> ELSE InsertAscending(SortAscending(values, k - 1), values[k])

\* Arrays are objects: arrays maps each array a call can reach to its
\* elements, and a variable of the code holds the name of one of them.

\* a slip that keeps working on the caller's array instead of a copy
sliceNone(arrays, array) == [arrays |-> arrays, ret |-> array]

\* array.slice(): a new array with the elements of array
slice(arrays, array) ==
    [arrays |-> [a \in DOMAIN arrays \cup {"values"} |->
                    IF a = "values" THEN arrays[array] ELSE arrays[a]],
     ret |-> "values"]

\* array.sort(function(a,b) {return a - b;}), which sorts array in place
sort(arrays, array) ==
    [arrays EXCEPT ![array] = SortAscending(arrays[array], Len(arrays[array]))]

\* StatisticsFunctions.median(myvalues): the value returned, and the
\* caller's array after the call
medianCall(myvalues) ==
    LET copied == slice([a \in {"myvalues"} |-> myvalues], "myvalues")
        arrays == sort(copied.arrays, copied.ret)
        values == arrays[copied.ret]
        midpoint == Len(values) \div 2
    IN  [ret |-> IF Len(values) % 2 = 1
                 THEN Read(values, midpoint)
                 ELSE RDiv(RAdd(Read(values, midpoint - 1), Read(values, midpoint)), R(2)),
         myvalues |-> arrays["myvalues"]]

\* StatisticsFunctions.median
median(myvalues) == medianCall(myvalues).ret

RECURSIVE MinMax(_, _)
\* the running min and max of StatisticsFunctions.range over values[0 .. k-1]
MinMax(values, k) ==
    IF k = 2
    THEN IF RLt(values[1], values[2])
         THEN [min |-> values[1], max |-> values[2]]
         ELSE [min |-> values[2], max |-> values[1]]
    ELSE LET acc == MinMax(values, k - 1)
             value == values[k]
         IN  [min |-> IF RLt(value, acc.min) THEN value ELSE acc.min,
              max |-> IF RLt(acc.max, value) THEN value ELSE acc.max]

\* StatisticsFunctions.range
range(values) ==
    IF Len(values) < 2 THEN R(0)
    ELSE LET acc == MinMax(values, Len(values)) IN RSub(acc.max, acc.min)

RECURSIVE SumOfSquaresOfValues(_, _)
\* sumOfSquares += value * value over values[0 .. k-1]
SumOfSquaresOfValues(values, k) ==
    IF k = 0 THEN R(0)
    ELSE RAdd(SumOfSquaresOfValues(values, k - 1), RMul(values[k], values[k]))

\* StatisticsFunctions.variance
variance(values) ==
    LET sum == SumOfValues(values, Len(values))
        sumOfSquares == SumOfSquaresOfValues(values, Len(values))
        numberOfValues == R(Len(values))
        sumSquared == RMul(sum, sum)
    IN  RDiv(RSub(sumOfSquares, RDiv(sumSquared, numberOfValues)), numberOfValues)

\* a slip that divides by the sample size
varianceUnbiasedBySize(values) ==
    LET sampleSize == R(Len(values))
    IN  RDiv(RMul(variance(values), sampleSize), sampleSize)

\* StatisticsFunctions.varianceUnbiased
varianceUnbiased(values) ==
    LET sampleSize == R(Len(values))
    IN  RDiv(RMul(variance(values), sampleSize), RSub(sampleSize, R(1)))

\* the properties of the object literal map of functionByName
MapNames ==
    { "mean", "median", "standardDeviation", "variance", "varianceUnbiased",
      "meanAbsoluteDeviation", "range" }

\* properties an object literal inherits from Object.prototype
ObjectPrototypeNames ==
    { "constructor", "toString", "toLocaleString", "valueOf", "hasOwnProperty",
      "isPrototypeOf", "propertyIsEnumerable", "__proto__" }

\* the value of StatisticsFunctions[name], and of a property no object has
Member(object, name) == [object |-> object, property |-> name]

NoMember == [object |-> "undefined", property |-> ""]

\* StatisticsFunctions.functionByName: map[name], which looks name up in map
\* and then in the object map inherits from
functionByName(name) ==
    IF name \in MapNames THEN Member("StatisticsFunctions", name)
    ELSE IF name \in ObjectPrototypeNames THEN Member("Object.prototype", name)
    ELSE NoMember

\* zprob works on numbers in fixed point: the integer i stands for i/Scale.
\* With four decimal places every product stays below 2^31, and a result
\* of zprob is within Tolerance of the value the floating-point code returns.
Scale == 10000

Tolerance == Scale \div 500

\* x * y
FMul(x, y) == (x * y) \div Scale

\* Math.PI
Pi == 31416

\* Math.SQRT2
SQRT2 == 14142

\* Math.exp(-1)
ExpMinusOne == 3679

\* the Taylor polynomial of sin around 0, for |y| <= pi/2
SinSeries(y) ==
    LET y2 == FMul(y, y)
        t3 == FMul(y, y2) \div 6
        t5 == FMul(t3, y2) \div 20
        t7 == FMul(t5, y2) \div 42
        t9 == FMul(t7, y2) \div 72
    IN  y - t3 + t5 - t7 + t9

\* Math.sin(x), for x >= 0
MathSin(x) ==
    LET r == x % (2 * Pi)
    IN  IF 2 * r <= Pi THEN SinSeries(r)
        ELSE IF 2 * r <= 3 * Pi THEN SinSeries(Pi - r)
        ELSE SinSeries(r - 2 * Pi)

\* the Taylor polynomial of exp around 0, for -1 <= x <= 0
ExpSeries(x) ==
    LET x2 == FMul(x, x)
        x3 == FMul(x2, x)
        x4 == FMul(x3, x)
        x5 == FMul(x4, x)
        x6 == FMul(x5, x)
        x7 == FMul(x6, x)
    IN  Scale + x + x2 \div 2 + x3 \div 6 + x4 \div 24 + x5 \div 120 + x6 \div 720
          + x7 \div 5040

RECURSIVE MathExp(_)
\* Math.exp(x), for x <= 0
MathExp(x) ==
    IF x < -Scale THEN FMul(ExpMinusOne, MathExp(x + Scale)) ELSE ExpSeries(x)

RECURSIVE ZprobSeries(_, _)
\* b after the first terms turns of the loop of zprob; hh is (2*i + 1)/2 in
\* turn i
ZprobSeries(s, terms) ==
    IF terms = 0 THEN 0
    ELSE LET twiceHh == 2 * (terms - 1) + 1
             a == (2 * FMul(MathExp(-((twiceHh * twiceHh * Scale) \div 36)),
                            MathSin((twiceHh * s) \div 2))) \div twiceHh
         IN  ZprobSeries(s, terms - 1) + a

\* StatisticsFunctions.zprob
zprob(z) ==
    IF z < -7 * Scale THEN 0
    ELSE IF z > 7 * Scale THEN Scale
    ELSE LET zNegative == z < 0
             s == (SQRT2 * Abs(z)) \div (3 * Scale)
             b == ZprobSeries(s, 12)
             p == Scale \div 2 - (b * Scale) \div Pi
         IN  IF zNegative THEN Scale - p ELSE p

\* the statistics a caller asks for by name
ReduceNames == { "mean", "median", "range" }

\* reduceFunction(sampleData), for the function functionByName(name) returns
Reduce(name, sampleData) ==
    CASE name = "mean" -> mean(sampleData)
      [] name = "median" -> median(sampleData)
      [] name = "range" -> range(sampleData)

----------------------------------------------------------------------------
(* Sampling: drawing from a distribution.                                  *)

\* Math.random(): the next number of the generator, and the generator after it
NextRandom(rnd) == Head(rnd)

Advance(rnd) == Append(Tail(rnd), Head(rnd))

\* parseFloat(value.toFixed(2)): value rounded to hundredths, a tie going
\* away from zero
ToFixed2(value) ==
    IF value.d = 0 THEN value
    ELSE Rat(Sign(value.n) * ((200 * Abs(value.n) + value.d) \div (2 * value.d)), 100)

\* totals[j]: the number of observations in bins 0 .. j
totals(frequencies) ==
    [j \in 1..Len(frequencies) |-> numberOfObservationsUpTo(frequencies, j)]

\* a slip that tests randomIndex < totals[j]
BinReachedStrict(randomIndex, total) == RLt(randomIndex, R(total))

\* randomIndex <= totals[j]
BinReached(randomIndex, total) == RLe(randomIndex, R(total))

RECURSIVE FindBin(_, _, _)
\* the loop over j: the first bin from j on that randomIndex reaches, or -1
\* when the loop ends without a break
FindBin(randomIndex, tot, j) ==
    IF j >= Len(tot) THEN -1
    ELSE IF BinReached(randomIndex, tot[j + 1]) THEN j
    ELSE FindBin(randomIndex, tot, j + 1)

\* a slip that takes Math.floor(Math.random() * numberOfObservations)
RandomIndexFloor(rnd, distribution) ==
    MathFloor(RMul(NextRandom(rnd), R(numberOfObservations(distribution))))

\* Math.round(Math.random() * numberOfObservations)
RandomIndex(rnd, distribution) ==
    MathRound(RMul(NextRandom(rnd), R(numberOfObservations(distribution))))

RECURSIVE SampleDraws(_, _, _)
\* the loop of Sampling.prototype.sample over draws 0 .. k-1
SampleDraws(distribution, k, rnd) ==
    IF k = 0 THEN [sampleData |-> <<>>, random |-> rnd]
    ELSE LET prev == SampleDraws(distribution, k - 1, rnd)
             j == FindBin(RandomIndex(prev.random, distribution),
                          totals(distribution.frequencies), 0)
         IN  [sampleData |-> IF j >= 0
                             THEN Append(prev.sampleData, At(distribution.values, j))
                             ELSE prev.sampleData,
              random |-> Advance(prev.random)]

\* Sampling.prototype.sample(distribution, sampleSize)
sample(distribution, sampleSize, rnd) == SampleDraws(distribution, sampleSize, rnd)

\* a slip that pushes the value onto sampleData, which is never emptied
SetAtEnd(array, i, value) == Append(array, value)

\* sampleData[i] = value on a JavaScript array: elements skipped over are
\* undefined
SetAt(array, i, value) ==
    [k \in 1..(IF i + 1 > Len(array) THEN i + 1 ELSE Len(array)) |->
        IF k = i + 1 THEN value
        ELSE IF k <= Len(array) THEN array[k] ELSE Undefined]

RECURSIVE DrawSample(_, _, _, _)
\* the loop over i of sampleMany, draws 0 .. k-1 of one sample; st holds
\* sampleData, sampleValues, random and resultsData
DrawSample(distribution, continuous, k, st) ==
    IF k = 0 THEN st
    ELSE LET prev == DrawSample(distribution, continuous, k - 1, st)
             i == k - 1
             step2 == RDiv(RSub(distribution.values[2], distribution.values[1]), R(2))
             j == FindBin(RandomIndex(prev.random, distribution),
                          totals(distribution.frequencies), 0)
             afterIndex == Advance(prev.random)
             value == IF continuous
                      THEN RAdd(At(distribution.values, j),
                                RMul(RSub(NextRandom(afterIndex), Rat(1, 2)), step2))
                      ELSE At(distribution.values, j)
         IN  IF j < 0 THEN [prev EXCEPT !.random = afterIndex]
             ELSE [prev EXCEPT
                     !.sampleData = SetAt(@, i, ToFixed2(value)),
                     !.sampleValues = Append(@, ToFixed2(value)),
                     !.random = IF continuous THEN Advance(afterIndex) ELSE afterIndex]

RECURSIVE DrawSamples(_, _, _, _, _, _)
\* the loop over sampleIndex of sampleMany, samples 0 .. k-1
DrawSamples(distribution, continuous, sampleSize, k, reduceFunction, st) ==
    IF k = 0 THEN st
    ELSE LET prev == DrawSamples(distribution, continuous, sampleSize, k - 1,
                                 reduceFunction, st)
             drawn == DrawSample(distribution, continuous, sampleSize, prev)
         IN  [drawn EXCEPT
                !.resultsData = Append(@, Reduce(reduceFunction, drawn.sampleData))]

\* Sampling.prototype.sampleMany(distribution, sampleSize, numberOfSamples,
\* reduceFunction), given the log, the selected distribution name and the
\* generator; returns resultsData with the log and the generator after it
sampleMany(distribution, sampleSize, numberOfSamples, reduceFunction, log, selected, rnd) ==
    DrawSamples(distribution, selected = "Normal", sampleSize, numberOfSamples,
                reduceFunction,
                [sampleData |-> <<>>, sampleValues |-> log, random |-> rnd,
                 resultsData |-> <<>>])

\* the preset parent populations, on three bins in place of Sampling.numberOfBins
normalDistribution ==
    HistogramData(<<Rat(-1, 5), R(0), Rat(1, 5)>>, <<1, 2, 1>>, Undefined, Undefined)

binomialDistribution ==
    HistogramData(<<R(0), Rat(1, 32), Rat(2, 32)>>, <<1, 0, 1>>, Undefined, Undefined)

poissonDistribution ==
    HistogramData(<<R(0), R(1), R(2)>>, <<2, 1, 0>>, Undefined, Undefined)

\* the "Custom" population: uniformFrequencies(0) over valuesWithInterval of
\* the currentInterval of the select element, which has none, so that every
\* bin value is i * undefined
customDistribution ==
    HistogramData(<<NaN, NaN, NaN>>, <<0, 0, 0>>, Undefined, Undefined)

\* the distribution the change handler installs for a selected name
DistributionNamed(val) ==
    CASE val = "Normal" -> normalDistribution
      [] val = "Binomial" -> binomialDistribution
      [] val = "Poisson" -> poissonDistribution
      [] val = "Custom" -> customDistribution

DistributionNames == { "Normal", "Binomial", "Poisson", "Custom" }

\* the outcome of Sampling.prototype.updateChart on the sample histogram:
\* the data the histogram displays after it, the log and the generator after
\* it, and what the call returned or threw
updateChart(parentPopulation, existingSamples, sampleSize, numberOfSamples, statToDisplay, log, selected, rnd) ==
    IF statToDisplay = "none"
    THEN [histogramData |-> makeEmpty(parentPopulation.values),
          sampleValues |-> log, random |-> rnd, ret |-> Return(Undefined)]
    ELSE LET after == sampleMany(parentPopulation, sampleSize, numberOfSamples,
                                 statToDisplay, log, selected, rnd)
             newSamples == makeWithDataPoints(after.resultsData, parentPopulation.values)
             allSamples == makeByCombiningData(existingSamples, newSamples)
         IN  [histogramData |-> IF Returned(allSamples) THEN allSamples.value
                                ELSE existingSamples,
              sampleValues |-> after.sampleValues,
              random |-> after.random,
              ret |-> IF Returned(allSamples) THEN Return(Undefined) ELSE allSamples]

\* Sampling.prototype.updateChartsWithSamples(numberOfSamples): samples of
\* size 1, reduced by the mean
updateChartsWithSamples(parentPopulation, existingSamples, numberOfSamples, log, selected, rnd) ==
    updateChart(parentPopulation, existingSamples, 1, numberOfSamples, "mean",
                log, selected, rnd)

----------------------------------------------------------------------------
(* AnimatedHistogram: data points animated into the displayed distribution.*)

\* no callback: animationCompletionCallback is undefined
NoCallback == "undefined"

\* AnimatedHistogram.prototype.animateNextDataPoint on the animated histogram
\* this = [histogramData, samples, animating, animationCompletionCallback,
\* animationsInFlight, called, notified]; called lists the callbacks it has
\* called, notified the observers it has notified: setHistogramData notifies
\* them, and notifyObserversOfChange once more
animateNextDataPoint(this) ==
    IF Len(this.samples) = 0
    THEN [this EXCEPT
            !.animating = FALSE,
            !.notified = @ \o notifyObserversOfChange(RegisteredObservers, this.histogramData)
                           \o notifyObserversOfChange(RegisteredObservers, this.histogramData),
            !.called = IF this.animationCompletionCallback # NoCallback
                       THEN Append(@, this.animationCompletionCallback) ELSE @,
            !.animationCompletionCallback = NoCallback]
    ELSE LET dataPoint == this.samples[Len(this.samples)]
             columnIndex == binIndexForDataPoint(dataPoint, this.histogramData.values)
         IN  [this EXCEPT
                !.samples = SubSeq(@, 1, Len(@) - 1),
                !.histogramData.frequencies = Increment(@, columnIndex),
                !.animationsInFlight = @ + 1]

\* AnimatedHistogram.prototype.animateInData(samples, callback)
animateInData(this, newSamples, callback) ==
    LET after == IF ~this.animating
                 THEN animateNextDataPoint([this EXCEPT !.samples = newSamples])
                 ELSE [this EXCEPT !.samples = @ \o newSamples]
    IN  [after EXCEPT !.animationCompletionCallback = callback]

----------------------------------------------------------------------------
(* Inputs of the operations on distributions.                              *)

\* bin sets: equal steps of 1 and of 2, and one of unequal steps
BinValueSets ==
    { <<R(0), R(1), R(2)>>, <<R(0), R(1), R(3)>>, <<R(-1), R(1)>> }

\* raw data points: on a bin, between bins, below and above every bin set
DataPoints == { R(-2), R(0), Rat(1, 2), R(5) }

RECURSIVE SeqsUpTo(_, _)
\* the sequences over S of length at most k
SeqsUpTo(S, k) ==
    IF k = 0 THEN { <<>> }
    ELSE LET shorter == SeqsUpTo(S, k - 1)
         IN  shorter \cup { Append(q, x) : q \in { t \in shorter : Len(t) = k - 1 }, x \in S }

\* the frequency arrays the constructor is given for a bin set
FrequenciesFor(binValues) == [1..Len(binValues) -> 0..MaxFrequency]

\* the sequences of raw data points handed to makeWithDataPoints
PointSeqs == SeqsUpTo(DataPoints, MaxPoints)

\* the distributions a caller builds to combine with the displayed one
NewData ==
    { makeWithDataPoints(p, v) : p \in SeqsUpTo(DataPoints, MaxNewPoints), v \in BinValueSets }

\* the data points animated in, and the callbacks passed with them
AnimatedPoints == { R(0), R(1) }

AnimatedSeqs == SeqsUpTo(AnimatedPoints, MaxAnimated)

Callbacks == { "callback1", "callback2", NoCallback }

\* the bin sets and points binIndexForDataPoint is asked about
IndexBinValueSets == BinValueSets \cup { <<R(0), R(1), R(2), R(3)>>, <<R(0), Rat(1, 8), Rat(1, 4)>> }

IndexDataPoints ==
    DataPoints \cup { R(-5), R(50), R(1), R(2), R(3), Rat(-1, 2), Rat(3, 2), Rat(1, 8),
                      Rat(1, 16), Rat(3, 16), Rat(1, 4) }

----------------------------------------------------------------------------
(* The operations on the distribution a histogram displays, as steps.  A   *)
(* handler runs to completion: while the outcome of a call is held in      *)
(* result, the only step is the one that consumes it.                      *)

Session == <<histogram1, sampleValues, selectDistribution, random>>

Animation == <<samples, animating, animationCompletionCallback, animationsInFlight>>

Others == <<Session, Animation>>

Idle == result.op = "idle"

\* HistogramData.makeEmpty(binValues)
MakeEmpty ==
    \E binValues \in BinValueSets :
        /\ Idle
        /\ result' = [op |-> "makeEmpty", binValues |-> binValues,
                      ret |-> Return(makeEmpty(binValues))]
        /\ UNCHANGED <<histogramData, Others>>

\* HistogramData.makeWithDataPoints(datapoints, binValues)
MakeWithDataPointsOf(pointSeqs) ==
    \E datapoints \in pointSeqs, binValues \in BinValueSets :
        /\ Idle
        /\ result' = [op |-> "makeWithDataPoints", datapoints |-> datapoints,
                      binValues |-> binValues,
                      ret |-> Return(makeWithDataPoints(datapoints, binValues))]
        /\ UNCHANGED <<histogramData, Others>>

MakeWithDataPoints == MakeWithDataPointsOf(PointSeqs)

\* new HistogramData(values, frequencies)
NewHistogramData ==
    \E values \in BinValueSets :
        \E frequencies \in FrequenciesFor(values) :
            /\ Idle
            /\ result' = [op |-> "new", values |-> values, frequencies |-> frequencies,
                          ret |-> Return(HistogramData(values, frequencies,
                                                       Undefined, Undefined))]
            /\ UNCHANGED <<histogramData, Others>>

\* HistogramData.makeByCombiningData of the displayed data and new data, in
\* either argument order (Sampling.prototype.updateChart calls it with the
\* displayed data first)
CombineData ==
    \E newSamples \in NewData, swap \in BOOLEAN :
        LET existingSamples == histogramData
            histogramData1 == IF swap THEN newSamples ELSE existingSamples
            histogramData2 == IF swap THEN existingSamples ELSE newSamples
        IN  /\ Idle
            /\ numberOfObservations(existingSamples) + numberOfObservations(newSamples)
                 <= MaxObservations
            /\ result' = [op |-> "makeByCombiningData", histogramData1 |-> histogramData1,
                          histogramData2 |-> histogramData2,
                          ret |-> makeByCombiningData(histogramData1, histogramData2)]
            /\ UNCHANGED <<histogramData, Others>>

\* HistogramData.binIndexForDataPoint(dataPoint, binValues)
BinIndexForDataPoint ==
    \E dataPoint \in IndexDataPoints, binValues \in IndexBinValueSets :
        /\ Idle
        /\ result' = [op |-> "binIndexForDataPoint", dataPoint |-> dataPoint,
                      binValues |-> binValues,
                      ret |-> Return(binIndexForDataPoint(dataPoint, binValues))]
        /\ UNCHANGED <<histogramData, Others>>

\* a pointer edit of one bar: Histogram.prototype.updateValueAtIndex
UpdateValueAtIndexOf(observerLists) ==
    \E index \in -1..numberOfBins(histogramData), newValue \in 0..MaxFrequency,
       observers \in observerLists :
        /\ Idle
        /\ histogramData' = updateValueAtIndex(histogramData, index, newValue)
        /\ result' = [op |-> "updateValueAtIndex", before |-> histogramData,
                      index |-> index, newValue |-> newValue, observers |-> observers,
                      notified |-> updateValueAtIndexNotified(histogramData, index,
                                                              newValue, observers)]
        /\ UNCHANGED <<Session, Animation>>

UpdateValueAtIndex == UpdateValueAtIndexOf({RegisteredObservers})

\* histogram.setHistogramData(data): the distribution a call returned
\* becomes the displayed one
SetHistogramData ==
    /\ result.op \in {"makeEmpty", "makeWithDataPoints", "new", "makeByCombiningData"}
    /\ Returned(result.ret)
    /\ histogramData' = result.ret.value
    /\ result' = [op |-> "idle"]
    /\ UNCHANGED <<Session, Animation>>

\* the handler ends: its locals are dropped, a thrown error unwinds it
HandlerReturns ==
    /\ ~Idle
    /\ result' = [op |-> "idle"]
    /\ UNCHANGED <<histogramData, Others>>

\* the animated histogram as one object
AnimatedHistogram ==
    [histogramData |-> histogramData, samples |-> samples, animating |-> animating,
     animationCompletionCallback |-> animationCompletionCallback,
     animationsInFlight |-> animationsInFlight, called |-> <<>>, notified |-> <<>>]

SetAnimatedHistogram(this) ==
    /\ histogramData' = this.histogramData
    /\ samples' = this.samples
    /\ animating' = this.animating
    /\ animationCompletionCallback' = this.animationCompletionCallback
    /\ animationsInFlight' = this.animationsInFlight

\* a caller animates data points into the displayed distribution
AnimateInDataOf(newSampleSeqs, callbacks) ==
    \E newSamples \in newSampleSeqs, callback \in callbacks :
        LET after == animateInData(AnimatedHistogram, newSamples, callback)
        IN  /\ Idle
            /\ animationsInFlight < MaxInFlight
            /\ numberOfObservations(histogramData) + Len(samples) + Len(newSamples)
                 <= MaxObservations
            /\ SetAnimatedHistogram(after)
            /\ result' = [op |-> "animateInData", newSamples |-> newSamples,
                          callback |-> callback, called |-> after.called,
                          notified |-> after.notified]
            /\ UNCHANGED Session

AnimateInData == AnimateInDataOf(AnimatedSeqs, Callbacks)

\* a bar animation completes: jQuery calls back into animateNextDataPoint
AnimationComplete ==
    LET after == animateNextDataPoint(
                    [AnimatedHistogram EXCEPT !.animationsInFlight = @ - 1])
    IN  /\ Idle
        /\ animationsInFlight > 0
        /\ SetAnimatedHistogram(after)
        /\ result' = [op |-> "animateNextDataPoint", called |-> after.called,
                      notified |-> after.notified]
        /\ UNCHANGED Session

\* the session before any operation: the parent population is a preset
\* distribution, the log is empty
InitSession ==
    /\ histogram1 = normalDistribution
    /\ sampleValues = <<>>
    /\ selectDistribution = "Normal"

\* new AnimatedHistogram(...): nothing queued, no animation, no callback
InitAnimation ==
    /\ samples = <<>>
    /\ animating = FALSE
    /\ animationCompletionCallback = NoCallback
    /\ animationsInFlight = 0

InitData ==
    /\ InitSession
    /\ InitAnimation
    /\ random = <<R(0)>>
    /\ histogramData \in { HistogramData(v, [i \in 1..Len(v) |-> 0], Undefined, Undefined) :
                             v \in BinValueSets }
    /\ result = [op |-> "idle"]

NextData ==
    \/ MakeEmpty
    \/ MakeWithDataPoints
    \/ NewHistogramData
    \/ CombineData
    \/ BinIndexForDataPoint
    \/ UpdateValueAtIndex
    \/ SetHistogramData
    \/ HandlerReturns

SpecData == InitData /\ [][NextData]_vars

----------------------------------------------------------------------------
(* The sampling session, as steps.                                         *)

\* the generator: a cycle of three numbers, which are the bottom, near the top
\* and the middle of [0, 1)
RandomStreams ==
    { <<R(0), Rat(99, 100), Rat(1, 2)>> }

\* Sampling.prototype.resetSamples
ResetSamples ==
    /\ Idle
    /\ sampleValues' = <<>>
    /\ histogramData' = makeEmpty(histogram1.values)
    /\ result' = [op |-> "resetSamples"]
    /\ UNCHANGED <<histogram1, selectDistribution, random, Animation>>

\* the change handler of the distribution select: a preset parent population
\* is installed and the samples are reset
ChangeDistribution ==
    \E val \in DistributionNames :
        /\ Idle
        /\ selectDistribution' = val
        /\ histogram1' = DistributionNamed(val)
        /\ sampleValues' = <<>>
        /\ histogramData' = makeEmpty(histogram1'.values)
        /\ UNCHANGED <<random, Animation, result>>

\* a pointer edit of one bar of the parent population
EditParent ==
    \E index \in 0..numberOfBins(histogram1), newValue \in 0..MaxFrequency :
        /\ Idle
        /\ Len(sampleValues) <= MaxEditedLog
        /\ histogram1' = updateValueAtIndex(histogram1, index, newValue)
        /\ UNCHANGED <<histogramData, sampleValues, selectDistribution, random,
                       Animation, result>>

\* Sampling.prototype.sample on the parent population
Sample ==
    \E sampleSize \in 0..MaxSampleSize :
        LET after == sample(histogram1, sampleSize, random)
        IN  /\ Idle
            /\ random' = after.random
            /\ result' = [op |-> "sample", distribution |-> histogram1,
                          sampleSize |-> sampleSize, random |-> random,
                          ret |-> Return(after.sampleData)]
            /\ UNCHANGED <<histogramData, histogram1, sampleValues, selectDistribution,
                           Animation>>

\* Sampling.prototype.sampleMany on the parent population
SampleMany ==
    \E sampleSize \in 0..MaxSampleSize, numberOfSamples \in 0..MaxNumberOfSamples,
       reduceFunction \in ReduceNames :
        LET after == sampleMany(histogram1, sampleSize, numberOfSamples, reduceFunction,
                                sampleValues, selectDistribution, random)
        IN  /\ Idle
            /\ Len(sampleValues) + sampleSize * numberOfSamples <= MaxLog
            /\ random' = after.random
            /\ sampleValues' = after.sampleValues
            /\ result' = [op |-> "sampleMany", distribution |-> histogram1,
                          sampleSize |-> sampleSize,
                          numberOfSamples |-> numberOfSamples,
                          reduceFunction |-> reduceFunction,
                          logBefore |-> sampleValues, random |-> random,
                          ret |-> Return(after.resultsData)]
            /\ UNCHANGED <<histogramData, histogram1, selectDistribution, Animation>>

InitSampling ==
    /\ InitSession
    /\ InitAnimation
    /\ random \in RandomStreams
    /\ histogramData = makeEmpty(histogram1.values)
    /\ result = [op |-> "idle"]

NextSampling ==
    \/ ResetSamples
    \/ ChangeDistribution
    \/ EditParent
    \/ Sample
    \/ SampleMany
    \/ HandlerReturns

SpecSampling == InitSampling /\ [][NextSampling]_vars

\* a click on a sample button: Sampling.prototype.updateChartsWithSamples
UpdateChartsWithSamples ==
    \E numberOfSamples \in 1..MaxNumberOfSamples :
        LET after == updateChartsWithSamples(histogram1, histogramData, numberOfSamples,
                                             sampleValues, selectDistribution, random)
        IN  /\ Idle
            /\ Len(sampleValues) + numberOfSamples <= MaxLog
            /\ histogramData' = after.histogramData
            /\ sampleValues' = after.sampleValues
            /\ random' = after.random
            /\ result' = [op |-> "updateChartsWithSamples",
                          numberOfSamples |-> numberOfSamples,
                          existingSamples |-> histogramData,
                          ret |-> after.ret]
            /\ UNCHANGED <<histogram1, selectDistribution, Animation>>

\* the sample histogram filled by the sample buttons
NextCharts ==
    \/ ResetSamples
    \/ ChangeDistribution
    \/ EditParent
    \/ UpdateChartsWithSamples
    \/ HandlerReturns

SpecCharts == InitSampling /\ [][NextCharts]_vars

\* the animated sample histogram: emptied, animated into, and combined with
\* new samples
NextAnimated ==
    \/ MakeEmpty
    \/ AnimateInData
    \/ AnimationComplete
    \/ CombineData
    \/ SetHistogramData
    \/ HandlerReturns

SpecAnimated == InitData /\ [][NextAnimated]_vars

----------------------------------------------------------------------------
(* Reading the statistics of the displayed distribution, as steps.         *)

\* the distributions given to the constructor whose statistics are read
StatisticsData ==
    UNION { { HistogramData(v, f, Undefined, Undefined) :
                f \in [1..Len(v) -> 0..MaxBinFrequency] } : v \in BinValueSets }

\* the mean and sd a caller passes to skew and kurtosis
Infinity == [n |-> 1, d |-> 0]

StatisticsArguments == { NaN, Infinity, R(0), Rat(1, 2) }

\* histogramData.mean()
Mean ==
    /\ Idle
    /\ result' = [op |-> "mean", this |-> histogramData,
                  ret |-> Return(HistogramData_mean(histogramData))]
    /\ UNCHANGED <<histogramData, Others>>

\* histogramData.median()
Median ==
    /\ Idle
    /\ result' = [op |-> "median", this |-> histogramData,
                  ret |-> Return(HistogramData_median(histogramData))]
    /\ UNCHANGED <<histogramData, Others>>

\* histogramData.standardDeviation()
StandardDeviation ==
    /\ Idle
    /\ result' = [op |-> "standardDeviation", this |-> histogramData,
                  ret |-> Return(HistogramData_standardDeviation(histogramData))]
    /\ UNCHANGED <<histogramData, Others>>

\* histogramData.range()
Range ==
    /\ Idle
    /\ result' = [op |-> "range", this |-> histogramData,
                  ret |-> Return(HistogramData_range(histogramData))]
    /\ UNCHANGED <<histogramData, Others>>

\* histogramData.skew(mean, sd)
Skew ==
    \E mean_ \in StatisticsArguments, sd \in StatisticsArguments :
        /\ Idle
        /\ result' = [op |-> "skew", this |-> histogramData, mean |-> mean_, sd |-> sd,
                      ret |-> Return(skew(histogramData, mean_, sd))]
        /\ UNCHANGED <<histogramData, Others>>

\* histogramData.kurtosis(mean, sd)
Kurtosis ==
    \E mean_ \in StatisticsArguments, sd \in StatisticsArguments :
        /\ Idle
        /\ result' = [op |-> "kurtosis", this |-> histogramData, mean |-> mean_, sd |-> sd,
                      ret |-> Return(kurtosis(histogramData, mean_, sd))]
        /\ UNCHANGED <<histogramData, Others>>

\* histogramData.getStatistics()
GetStatistics ==
    /\ Idle
    /\ result' = [op |-> "getStatistics", this |-> histogramData,
                  ret |-> Return(getStatistics(histogramData))]
    /\ UNCHANGED <<histogramData, Others>>

InitStatistics ==
    /\ InitSession
    /\ InitAnimation
    /\ random = <<R(0)>>
    /\ histogramData \in StatisticsData
    /\ result = [op |-> "idle"]

\* a distribution is edited and animated into, and its statistics are read
NextStatistics ==
    \/ UpdateValueAtIndex
    \/ AnimateInData
    \/ AnimationComplete
    \/ Mean
    \/ Median
    \/ StandardDeviation
    \/ Range
    \/ Skew
    \/ Kurtosis
    \/ GetStatistics
    \/ HandlerReturns

SpecStatistics == InitStatistics /\ [][NextStatistics]_vars

----------------------------------------------------------------------------
(* Every operation that builds or changes a distribution, as steps.        *)

\* makeWithDataPoints of at most MaxNewPoints raw data points
MakeWithFewDataPoints == MakeWithDataPointsOf(SeqsUpTo(DataPoints, MaxNewPoints))

\* animateInData without a completion callback
AnimateInDataOnly == AnimateInDataOf(AnimatedSeqs, {NoCallback})

NextShape ==
    \/ MakeEmpty
    \/ MakeWithFewDataPoints
    \/ CombineData
    \/ SetHistogramData
    \/ UpdateValueAtIndex
    \/ AnimateInDataOnly
    \/ AnimationComplete
    \/ GetStatistics
    \/ HandlerReturns

SpecShape == InitData /\ [][NextShape]_vars

----------------------------------------------------------------------------
(* The functions of StatisticsFunctions on arrays of numbers.              *)

\* the numbers of the arrays
ArrayValues == { R(1), R(2), R(3), R(4) }

\* the arrays handed to the functions, in any order of their elements
Arrays == SeqsUpTo(ArrayValues, MaxValues)

\* the names asked of functionByName
Names ==
    MapNames \cup ObjectPrototypeNames \cup
    { "", "Mean", "MEDIAN", "mode", "sum", "stdev", "skew", "kurtosis", "zprob",
      "functionByName" }

\* StatisticsFunctions.functionByName(name)
FunctionByName ==
    \E name \in Names :
        /\ Idle
        /\ result' = [op |-> "functionByName", name |-> name,
                      ret |-> Return(functionByName(name))]
        /\ UNCHANGED <<histogramData, Others>>

\* StatisticsFunctions.median(myvalues) on an array of the caller
StatisticsMedian ==
    \E myvalues \in Arrays :
        LET call == medianCall(myvalues)
        IN  /\ Idle
            /\ result' = [op |-> "StatisticsFunctions.median", myvalues |-> myvalues,
                          after |-> call.myvalues, ret |-> Return(call.ret)]
            /\ UNCHANGED <<histogramData, Others>>

\* StatisticsFunctions.variance(values)
Variance ==
    \E values \in Arrays :
        /\ Idle
        /\ result' = [op |-> "variance", values |-> values,
                      ret |-> Return(variance(values))]
        /\ UNCHANGED <<histogramData, Others>>

\* StatisticsFunctions.varianceUnbiased(values)
VarianceUnbiased ==
    \E values \in Arrays :
        /\ Idle
        /\ result' = [op |-> "varianceUnbiased", values |-> values,
                      ret |-> Return(varianceUnbiased(values))]
        /\ UNCHANGED <<histogramData, Others>>

\* the z scores handed to zprob: the tenths from -MaxZ to MaxZ
ZScores == { k * (Scale \div 10) : k \in (-10 * MaxZ)..(10 * MaxZ) }

\* StatisticsFunctions.zprob(z)
Zprob ==
    \E z \in ZScores :
        /\ Idle
        /\ result' = [op |-> "zprob", z |-> z, ret |-> Return(zprob(z))]
        /\ UNCHANGED <<histogramData, Others>>

NextFunctions ==
    \/ FunctionByName
    \/ StatisticsMedian
    \/ Variance
    \/ VarianceUnbiased
    \/ Zprob
    \/ HandlerReturns

SpecFunctions == InitSampling /\ [][NextFunctions]_vars

\* the observers registered on an editable histogram: none, the one of
\* setupHistograms, or a second one after it
ObserverLists == { <<>>, RegisteredObservers, RegisteredObservers \o <<"plot">> }

\* a touch on an editable histogram that has any of these observers
UpdateValueAtIndexObserved == UpdateValueAtIndexOf(ObserverLists)

NextObservers ==
    \/ UpdateValueAtIndexObserved
    \/ HandlerReturns

SpecObservers == InitStatistics /\ [][NextObservers]_vars

----------------------------------------------------------------------------
(* Claims about makeByCombiningData.                                       *)

CombineCalled == result.op = "makeByCombiningData"

SameBinValues(d1, d2) ==
    /\ Len(d1.values) = Len(d2.values)
    /\ \A i \in 1..Len(d1.values) : d1.values[i] = d2.values[i]

\* C1: for two distributions with the same number of bins and the same bin
\* value at every index, makeByCombiningData returns a distribution, and its
\* numberOfObservations() is the sum of the two operands' numberOfObservations()
C1_CombineAddsObservations ==
    (CombineCalled /\ SameBinValues(result.histogramData1, result.histogramData2))
    => /\ Returned(result.ret)
       /\ numberOfObservations(result.ret.value)
            = numberOfObservations(result.histogramData1)
              + numberOfObservations(result.histogramData2)

\* two non-empty distributions on the same bins have been combined
C1_Witness ==
    /\ CombineCalled
    /\ SameBinValues(result.histogramData1, result.histogramData2)
    /\ numberOfObservations(result.histogramData1) > 0
    /\ numberOfObservations(result.histogramData2) > 0
    /\ Returned(result.ret)

\* C2: makeByCombiningData throws, returning no distribution, when the bin
\* counts differ and when they agree but a bin value differs at some index;
\* the two cases throw different messages
C2_CombineRejectsMismatch ==
    CombineCalled =>
        LET d1 == result.histogramData1
            d2 == result.histogramData2
        IN  /\ Len(d1.values) # Len(d2.values)
                => /\ ~Returned(result.ret)
                   /\ result.ret.thrown = "Attempt to merge two histograms of different size"
            /\ (Len(d1.values) = Len(d2.values) /\ ~SameBinValues(d1, d2))
                => /\ ~Returned(result.ret)
                   /\ result.ret.thrown = "Attempt to merge two histograms of different scale"

\* bins [0,1,2] have been combined with bins [0,1,3], and it threw
C2_Witness ==
    /\ CombineCalled
    /\ result.histogramData1.values = <<R(0), R(1), R(2)>>
    /\ result.histogramData2.values = <<R(0), R(1), R(3)>>
    /\ ~Returned(result.ret)

\* C3: on shared bin values, combining is commutative and associative in the
\* per-bin frequencies and in the total count: combine(a,b) and combine(b,a)
\* agree, and combine(combine(a,b),c) and combine(a,combine(b,c)) agree
C3_CombineCommutesAndAssociates ==
    (CombineCalled /\ Returned(result.ret)) =>
        LET a == result.histogramData1
            b == result.histogramData2
            ab == result.ret.value
            ba == makeByCombiningData(b, a)
        IN  /\ Returned(ba)
            /\ ba.value.frequencies = ab.frequencies
            /\ numberOfObservations(ba.value) = numberOfObservations(ab)
            /\ \A c \in NewData :
                  SameBinValues(a, c) =>
                      LET abc == makeByCombiningData(ab, c)
                          bc == makeByCombiningData(b, c)
                      IN  /\ Returned(abc)
                          /\ Returned(bc)
                          /\ LET a_bc == makeByCombiningData(a, bc.value)
                             IN  /\ Returned(a_bc)
                                 /\ abc.value.frequencies = a_bc.value.frequencies
                                 /\ numberOfObservations(abc.value)
                                      = numberOfObservations(a_bc.value)

\* two distributions with different frequencies have been combined
C3_Witness ==
    /\ CombineCalled
    /\ Returned(result.ret)
    /\ result.histogramData1.frequencies # result.histogramData2.frequencies
    /\ numberOfObservations(result.histogramData1) > 0
    /\ numberOfObservations(result.histogramData2) > 0

\* C4: a successful makeByCombiningData(a, b) returns frequencies[i] =
\* a.frequencies[i] + b.frequencies[i] for every bin, sum = a.sum + b.sum and
\* sumOfSquares = a.sumOfSquares + b.sumOfSquares, also when both added
\* aggregates are 0, and leaves the operands as they were
C4_CombineAddsAggregates ==
    (CombineCalled /\ Returned(result.ret)) =>
        LET a == result.histogramData1
            b == result.histogramData2
            new == result.ret.value
        IN  /\ \A i \in 1..Len(a.values) :
                  new.frequencies[i] = a.frequencies[i] + b.frequencies[i]
            /\ new.sum = RAdd(a.sum, b.sum)
            /\ new.sumOfSquares = RAdd(a.sumOfSquares, b.sumOfSquares)
            /\ histogramData \in {a, b}

----------------------------------------------------------------------------
(* Claims about the cached aggregates.                                     *)

\* sum and sumOfSquares are what computeSums would store now
AggregatesMatchFrequencies(d) ==
    /\ d.sum = SumValueFrequency(d.values, d.frequencies, Len(d.values))
    /\ d.sumOfSquares = SumSquareFrequency(d.values, d.frequencies, Len(d.values))

\* C5: in every reachable state the displayed distribution's cached sum is
\* the sum over bins of values[i]*frequencies[i] and its cached sumOfSquares
\* the sum over bins of values[i]^2*frequencies[i]
C5_AggregatesAlwaysMatch == AggregatesMatchFrequencies(histogramData)

RECURSIVE RawSum(_, _)
\* the sum of datapoints[1..k]
RawSum(datapoints, k) ==
    IF k = 0 THEN R(0) ELSE RAdd(RawSum(datapoints, k - 1), datapoints[k])

RECURSIVE RawSumOfSquares(_, _)
\* the sum of the squares of datapoints[1..k]
RawSumOfSquares(datapoints, k) ==
    IF k = 0 THEN R(0)
    ELSE RAdd(RawSumOfSquares(datapoints, k - 1), RMul(datapoints[k], datapoints[k]))

MakeWithDataPointsCalled == result.op = "makeWithDataPoints"

\* C6: the distribution makeWithDataPoints returns has sum equal to the sum
\* of the raw points and sumOfSquares equal to the sum of their squares, also
\* when both are 0
C6_RawAggregatesKept ==
    MakeWithDataPointsCalled =>
        /\ result.ret.value.sum = RawSum(result.datapoints, Len(result.datapoints))
        /\ result.ret.value.sumOfSquares
             = RawSumOfSquares(result.datapoints, Len(result.datapoints))

\* C7: makeWithDataPoints rejects no point: bin i counts the points whose
\* binIndexForDataPoint is i, a point below the first or above the last bin
\* included, so numberOfObservations() is the number of points supplied
C7_EveryPointCounted ==
    MakeWithDataPointsCalled =>
        LET datapoints == result.datapoints
            new == result.ret.value
        IN  /\ numberOfObservations(new) = Len(datapoints)
            /\ \A i \in 1..Len(result.binValues) :
                  new.frequencies[i]
                    = Cardinality({ k \in 1..Len(datapoints) :
                          binIndexForDataPoint(datapoints[k], result.binValues) = R(i - 1) })

\* points below the first and above the last bin have been binned
C7_Witness ==
    /\ MakeWithDataPointsCalled
    /\ Len(result.datapoints) = 2
    /\ \E k \in 1..2 : RLt(result.datapoints[k], result.binValues[1])
    /\ \E k \in 1..2 : RLt(result.binValues[Len(result.binValues)], result.datapoints[k])

\* every step between neighbouring bin values is the same, and positive
EqualStep(binValues) ==
    /\ Len(binValues) >= 2
    /\ RLt(R(0), RSub(binValues[2], binValues[1]))
    /\ \A i \in 1..(Len(binValues) - 1) :
          RSub(binValues[i + 1], binValues[i]) = RSub(binValues[2], binValues[1])

\* C8: on an equal-step bin set of N >= 2 bins binIndexForDataPoint(x) is
\* round((x - binValues[0]) / step) clamped into [0, N-1]: a valid index r,
\* with x less than half a step above bin r unless r is the last bin, and at
\* most half a step below bin r unless r is the first; so a point below the
\* first bin maps to 0, a point above the last to N-1, and binValues[j] to j
C8_BinIndexIsClampedRound ==
    (result.op = "binIndexForDataPoint" /\ EqualStep(result.binValues)) =>
        LET x == result.dataPoint
            binValues == result.binValues
            N == Len(binValues)
            step == RSub(binValues[2], binValues[1])
            r == result.ret.value
            \* twice the distance of x above bin r
            above == RMul(R(2), RSub(x, binValues[r.n + 1]))
        IN  /\ IsIndex(r, N)
            /\ r.n < N - 1 => RLt(above, step)
            /\ r.n > 0 => RLe(RNeg(step), above)
            /\ RLt(x, binValues[1]) => r = R(0)
            /\ RLt(binValues[N], x) => r = R(N - 1)
            /\ \A j \in 0..(N - 1) : x = binValues[j + 1] => r = R(j)

\* on the bins [0,1,2,3] the point 50 has been mapped to index 3
C8_Witness ==
    /\ result.op = "binIndexForDataPoint"
    /\ result.binValues = <<R(0), R(1), R(2), R(3)>>
    /\ result.dataPoint = R(50)
    /\ result.ret.value = R(3)

\* C9: sample(distribution, n) on a distribution of non-negative frequencies
\* returns exactly n values, each one of distribution.values, whatever the
\* generator returns: every draw finds a bin
C9_SampleReturnsEveryDraw ==
    result.op = "sample" =>
        /\ \A i \in 1..Len(result.distribution.frequencies) :
              result.distribution.frequencies[i] >= 0
        /\ Returned(result.ret)
        /\ Len(result.ret.value) = result.sampleSize
        /\ \A i \in 1..Len(result.ret.value) :
              \E j \in 1..Len(result.distribution.values) :
                  result.ret.value[i] = result.distribution.values[j]

\* two draws of one sample have found different bins, the bottom draw
\* landing in a bin of frequency 0
C9_Witness ==
    /\ result.op = "sample"
    /\ result.sampleSize >= 2
    /\ result.distribution.frequencies[1] = 0
    /\ Len(result.ret.value) >= 2
    /\ result.ret.value[1] = result.distribution.values[1]
    /\ result.ret.value[2] # result.ret.value[1]

\* the values sampleMany drew for its k-th sample: the k-th run of sampleSize
\* entries the call added to the log
DrawnForSample(k) ==
    SubSeq(sampleValues,
           Len(result.logBefore) + (k - 1) * result.sampleSize + 1,
           Len(result.logBefore) + k * result.sampleSize)

\* C10: sampleMany returns exactly numberOfSamples scalars, the k-th being
\* reduceFunction of the sampleSize values drawn for the k-th sample, and
\* appends every drawn value to the log, which keeps its earlier entries and
\* grows by exactly sampleSize * numberOfSamples
C10_SampleManyReducesEachSample ==
    result.op = "sampleMany" =>
        /\ Returned(result.ret)
        /\ Len(result.ret.value) = result.numberOfSamples
        /\ Len(sampleValues)
             = Len(result.logBefore) + result.sampleSize * result.numberOfSamples
        /\ SubSeq(sampleValues, 1, Len(result.logBefore)) = result.logBefore
        /\ \A k \in 1..Len(result.ret.value) :
              result.ret.value[k] = Reduce(result.reduceFunction, DrawnForSample(k))

\* two samples of two values each have been drawn, the two values of the
\* first differ, and the statistics of the two samples differ
C10_Witness ==
    /\ result.op = "sampleMany"
    /\ result.sampleSize = 2
    /\ result.numberOfSamples = 2
    /\ Len(result.ret.value) = 2
    /\ Len(sampleValues) = 4
    /\ sampleValues[1] # sampleValues[2]
    /\ result.ret.value[1] # result.ret.value[2]

----------------------------------------------------------------------------
(* Claims about the sample histogram.                                      *)

\* C11: a batch of numberOfSamples samples accumulates: after
\* updateChartsWithSamples the sample histogram holds the observations it
\* held before plus numberOfSamples, on the bin set of the parent
\* population, and the combining raised no shape mismatch; after
\* resetSamples it holds no observation, on the bin set of the parent
C11_BatchesAccumulate ==
    /\ result.op = "updateChartsWithSamples" =>
          /\ Returned(result.ret)
          /\ numberOfObservations(histogramData)
               = numberOfObservations(result.existingSamples) + result.numberOfSamples
          /\ histogramData.values = histogram1.values
    /\ result.op = "resetSamples" =>
          /\ numberOfObservations(histogramData) = 0
          /\ histogramData.values = histogram1.values

----------------------------------------------------------------------------
(* Claims about the statistics of a distribution.                          *)

\* the bins of a distribution that hold an observation
FilledBins(this) == { i \in 1..Len(this.frequencies) : this.frequencies[i] > 0 }

\* C12: median() follows the rank rule: with n observations, R = (n+1)/2
\* and IR = floor(R), the result is decided at the first bin i whose
\* cumulative frequency nc reaches IR; if nc = IR there it is values[i] +
\* (R-IR)*(values[i+1]-values[i]), or values[i] when i is the last bin; if
\* nc > IR there it is values[i]
C12_MedianFollowsRankRule ==
    result.op = "median" =>
        LET this == result.this
            N == Len(this.values)
            n == numberOfObservations(this)
            IR == (n + 1) \div 2
            fraction == Rat((n + 1) - 2 * IR, 2)
            nc(i) == numberOfObservationsUpTo(this.frequencies, i)
            reached == { i \in 1..N : nc(i) >= IR }
            first == CHOOSE i \in reached : \A j \in reached : i <= j
        IN  /\ reached # {}
            /\ result.ret.value =
                 IF nc(first) = IR /\ first < N
                 THEN RAdd(this.values[first],
                           RMul(fraction, RSub(this.values[first + 1], this.values[first])))
                 ELSE this.values[first]

\* the median of an even number of observations has been interpolated half
\* a step above a bin that is not the last
C12_Witness ==
    /\ result.op = "median"
    /\ numberOfObservations(result.this) = 4
    /\ \A i \in 1..Len(result.this.values) : result.ret.value # result.this.values[i]

\* C13: a distribution with at least one observation whose observations all
\* have the same value (one bin alone is not empty) has standardDeviation()
\* exactly 0
C13_SameValueHasZeroDeviation ==
    (result.op = "standardDeviation" /\ Cardinality(FilledBins(result.this)) = 1) =>
        result.ret.value = R(0)

\* C14: range(), skew(mean, sd) and kurtosis(mean, sd) return exactly 0 when
\* the distribution has fewer than 2 observations, skew and kurtosis also
\* when sd is 0, whatever mean and sd are passed, and none of them fails
C14_DegenerateStatisticsAreZero ==
    result.op \in {"range", "skew", "kurtosis"} =>
        /\ Returned(result.ret)
        /\ numberOfObservations(result.this) < 2 => result.ret.value = R(0)
        /\ (result.op \in {"skew", "kurtosis"} /\ result.sd = R(0)) =>
              result.ret.value = R(0)

\* skew has been asked of an empty distribution with a NaN mean and sd
C14_Witness ==
    /\ result.op = "skew"
    /\ numberOfObservations(result.this) = 0
    /\ IsNaN(result.mean)
    /\ IsNaN(result.sd)
    /\ result.ret.value = R(0)

\* C15: mean() of a distribution without observations returns a non-finite
\* value, raises no error and leaves the distribution as it was;
\* getStatistics() of such a distribution completes, its mean non-finite
C15_EmptyMeanIsNotFinite ==
    /\ (result.op = "mean" /\ numberOfObservations(result.this) = 0) =>
          /\ Returned(result.ret)
          /\ ~IsFinite(result.ret.value)
          /\ histogramData = result.this
    /\ (result.op = "getStatistics" /\ numberOfObservations(result.this) = 0) =>
          /\ Returned(result.ret)
          /\ ~IsFinite(result.ret.value.mean)
          /\ histogramData = result.this

\* the statistics of a distribution without observations have been built
C15_Witness ==
    /\ result.op = "getStatistics"
    /\ numberOfObservations(result.this) = 0
    /\ IsNaN(result.ret.value.mean)
    /\ result.ret.value.range = R(0)

----------------------------------------------------------------------------
(* Claims about StatisticsFunctions.                                       *)

RECURSIVE SumOfSquaredDeviations(_, _, _)
\* the sum of (values[i] - centre)^2 over the first k values
SumOfSquaredDeviations(values, centre, k) ==
    IF k = 0 THEN R(0)
    ELSE RAdd(SumOfSquaredDeviations(values, centre, k - 1),
              RMul(RSub(values[k], centre), RSub(values[k], centre)))

\* C16: for an array of n >= 2 values varianceUnbiased is variance * n/(n-1),
\* the sum of the squared deviations from the mean over n-1 (variance being
\* that sum over n); for n <= 1 it is a non-finite value
C16_VarianceUnbiasedRescalesVariance ==
    result.op = "varianceUnbiased" =>
        LET values == result.values
            n == Len(values)
            deviations == SumOfSquaredDeviations(values, mean(values), n)
        IN  /\ Returned(result.ret)
            /\ n >= 2 =>
                  /\ variance(values) = RDiv(deviations, R(n))
                  /\ result.ret.value = RDiv(RMul(variance(values), R(n)), R(n - 1))
                  /\ result.ret.value = RDiv(deviations, R(n - 1))
            /\ n <= 1 => ~IsFinite(result.ret.value)

\* the unbiased variance of an array of three values that are not all the
\* same has been computed, and it is larger than the variance
C16_Witness ==
    /\ result.op = "varianceUnbiased"
    /\ Len(result.values) = 3
    /\ IsFinite(result.ret.value)
    /\ RLt(variance(result.values), result.ret.value)

\* C17: functionByName returns the function for exactly the seven names
\* mean, median, standardDeviation, variance, varianceUnbiased,
\* meanAbsoluteDeviation and range, and nothing for every other string
C17_SevenNamesOnly ==
    result.op = "functionByName" =>
        IF result.name \in { "mean", "median", "standardDeviation", "variance",
                             "varianceUnbiased", "meanAbsoluteDeviation", "range" }
        THEN result.ret.value = Member("StatisticsFunctions", result.name)
        ELSE result.ret.value = NoMember

\* the k-th smallest of the values
KthSmallest(values, k) ==
    CHOOSE m \in { values[i] : i \in 1..Len(values) } :
        /\ Cardinality({ i \in 1..Len(values) : RLt(values[i], m) }) < k
        /\ Cardinality({ i \in 1..Len(values) : RLe(values[i], m) }) >= k

\* C18: StatisticsFunctions.median returns the middle value of an array of
\* odd length and the average of the two middle values of one of even
\* length, in ascending order (median([1,2,3,4]) = 2.5, median([1,2,3]) = 2),
\* and leaves the caller's array as it was
C18_MedianOfArray ==
    (result.op = "StatisticsFunctions.median" /\ result.myvalues # <<>>) =>
        LET values == result.myvalues
            n == Len(values)
        IN  /\ result.ret.value =
                 IF n % 2 = 1 THEN KthSmallest(values, (n + 1) \div 2)
                 ELSE RDiv(RAdd(KthSmallest(values, n \div 2),
                                KthSmallest(values, n \div 2 + 1)), R(2))
            /\ result.after = values
            /\ values = <<R(1), R(2), R(3), R(4)>> => result.ret.value = Rat(5, 2)
            /\ values = <<R(1), R(2), R(3)>> => result.ret.value = R(2)

\* the median of four values handed over in descending order is 2.5
C18_Witness ==
    /\ result.op = "StatisticsFunctions.median"
    /\ result.myvalues = <<R(4), R(3), R(2), R(1)>>
    /\ result.after = result.myvalues
    /\ result.ret.value = Rat(5, 2)

\* C19: zprob is non-decreasing in z over [-7, 7], is at least 0.5 for
\* z > 0 and at most 0.5 for z < 0 there, and is exactly 1.0 for z > 7 and
\* exactly 0.0 for z < -7 (comparisons up to the tolerance of the fixed point)
C19_ZprobIsNormalCDF ==
    result.op = "zprob" =>
        LET z == result.z
            p == result.ret.value
        IN  /\ z > 7 * Scale => p = Scale
            /\ z < -7 * Scale => p = 0
            /\ (z >= -7 * Scale /\ z <= 7 * Scale) =>
                  /\ z > 0 => p >= Scale \div 2 - Tolerance
                  /\ z < 0 => p <= Scale \div 2 + Tolerance
                  /\ \A z1 \in ZScores :
                        (z1 >= -7 * Scale /\ z1 <= z) => zprob(z1) <= p + Tolerance

----------------------------------------------------------------------------
(* Claims about the shape of a distribution.                               *)

\* a distribution has one frequency for each bin value
SameLengths(d) == Len(d.frequencies) = Len(d.values)

\* what the makers return has one frequency for each bin value of its bin set
MakersKeepBinSet ==
    /\ result.op \in {"makeEmpty", "makeWithDataPoints"} =>
          /\ Returned(result.ret)
          /\ result.ret.value.values = result.binValues
          /\ Len(result.ret.value.frequencies) = Len(result.binValues)
    /\ (result.op = "makeByCombiningData" /\ Returned(result.ret)) =>
          /\ result.ret.value.values = result.histogramData1.values
          /\ Len(result.ret.value.frequencies) = Len(result.histogramData1.values)

\* an edit, an animated point, computeSums within them and a reading of the
\* statistics leave both lengths of the displayed distribution as they were
LaterOperationsKeepLengths ==
    result'.op \in {"updateValueAtIndex", "animateInData", "animateNextDataPoint",
                    "getStatistics"} =>
        /\ histogramData'.values = histogramData.values
        /\ Len(histogramData'.frequencies) = Len(histogramData.frequencies)

\* C20: no distribution is resized after creation: makeEmpty,
\* makeWithDataPoints and makeByCombiningData return as many frequencies as
\* the bin set has values, and updateValueAtIndex, animateNextDataPoint,
\* computeSums and reading the statistics leave the lengths of values and
\* frequencies unchanged and equal
C20_NoDistributionIsResized ==
    /\ [](SameLengths(histogramData) /\ SameLengths(histogram1) /\ MakersKeepBinSet)
    /\ [][LaterOperationsKeepLengths]_vars

\* the empty last bin of a distribution with observations has been edited
C20_Witness ==
    /\ result.op = "updateValueAtIndex"
    /\ result.index = Len(result.before.values) - 1
    /\ result.before.frequencies[Len(result.before.values)] = 0
    /\ result.newValue = 1
    /\ numberOfObservations(histogramData) = 3

----------------------------------------------------------------------------
(* Claims about the draws of sample and sampleMany.                        *)

\* the p-th number the generator rnd returns
StreamAt(rnd, p) == rnd[((p - 1) % Len(rnd)) + 1]

\* the first bin, in increasing order, whose cumulative frequency r reaches
FirstBinReaching(distribution, r) ==
    CHOOSE j \in 1..Len(distribution.frequencies) :
        /\ r <= numberOfObservationsUpTo(distribution.frequencies, j)
        /\ \A i \in 1..(j - 1) : r > numberOfObservationsUpTo(distribution.frequencies, i)

\* the r of a draw that is given the number u by the generator
DrawOf(distribution, u) == MathRound(RMul(u, R(numberOfObservations(distribution))))

\* r is an integer of the inclusive range [0, total]
InRangeOfTotal(distribution, r) ==
    r.d = 1 /\ r.n >= 0 /\ r.n <= numberOfObservations(distribution)

\* the numbers the generator returns for one draw of sampleMany: one for r
\* and, for the distribution named Normal, one for the jitter
NumbersPerDraw == IF selectDistribution = "Normal" THEN 2 ELSE 1

\* the k-th value the sampleMany call added to the log, and the r of its draw
Logged(k) == sampleValues[Len(result.logBefore) + k]

DrawOfLogged(k) ==
    DrawOf(result.distribution, StreamAt(result.random, NumbersPerDraw * (k - 1) + 1))

\* x and y differ by at most q
Within(x, y, q) == RLe(RSub(x, y), q) /\ RLe(RSub(y, x), q)

\* each draw of sample takes an integer r of [0, total] and emits values[j]
\* of the first bin j with r <= totals[j]
SampleEmitsFirstBinReached ==
    result.op = "sample" =>
        /\ Len(result.ret.value) = result.sampleSize
        /\ \A i \in 1..result.sampleSize :
              LET r == DrawOf(result.distribution, StreamAt(result.random, i))
              IN  /\ InRangeOfTotal(result.distribution, r)
                  /\ result.ret.value[i]
                       = result.distribution.values[FirstBinReaching(result.distribution, r.n)]

\* C21 as stated: in sample and in sampleMany each draw takes an integer r of
\* [0, total] and emits values[j] of the first bin j, in increasing order,
\* with r <= totals[j]
C21_EveryDrawEmitsBinValue ==
    /\ SampleEmitsFirstBinReached
    /\ result.op = "sampleMany" =>
          \A k \in 1..(result.sampleSize * result.numberOfSamples) :
              LET r == DrawOfLogged(k)
              IN  /\ InRangeOfTotal(result.distribution, r)
                  /\ Logged(k)
                       = result.distribution.values[FirstBinReaching(result.distribution, r.n)]

\* C21, amended: each draw of sample and of sampleMany takes an integer r of
\* [0, total] and selects the first bin j with r <= totals[j]; sample emits
\* values[j], and sampleMany records values[j] rounded to hundredths, or, for
\* the distribution named Normal, a value within a quarter step of values[j]
C21_EveryDrawSelectsFirstBinReached ==
    /\ SampleEmitsFirstBinReached
    /\ result.op = "sampleMany" =>
          \A k \in 1..(result.sampleSize * result.numberOfSamples) :
              LET r == DrawOfLogged(k)
                  value == result.distribution.values[FirstBinReaching(result.distribution, r.n)]
                  step == HistogramData_step(result.distribution)
              IN  /\ InRangeOfTotal(result.distribution, r)
                  /\ IF selectDistribution = "Normal"
                     THEN Within(Logged(k), value, RDiv(step, R(4)))
                     ELSE Logged(k) = ToFixed2(value)

\* sampleMany has recorded, for the distribution named Normal, two draws of
\* different bins, one with r = 0 and the other with r = total
C21_Witness ==
    /\ result.op = "sampleMany"
    /\ selectDistribution = "Normal"
    /\ result.sampleSize * result.numberOfSamples >= 2
    /\ numberOfObservations(result.distribution) >= 2
    /\ {DrawOfLogged(1).n, DrawOfLogged(2).n}
         = {0, numberOfObservations(result.distribution)}
    /\ Logged(1) # Logged(2)

----------------------------------------------------------------------------
(* Claims about observers and the edits made in place.                     *)

\* C22: whenever updateValueAtIndex or the animation (animateInData,
\* animateNextDataPoint) notifies an observer of the displayed distribution,
\* computeSums has run since its frequencies were last changed: the sum and
\* sumOfSquares the observer finds are those of the frequencies it finds
C22_AggregatesRecomputedBeforeNotification ==
    result.op \in {"updateValueAtIndex", "animateInData", "animateNextDataPoint"} =>
        \A i \in 1..Len(result.notified) :
            AggregatesMatchFrequencies(result.notified[i].histogramData)

\* C23: updateValueAtIndex(index, newValue) with 0 <= index < numberOfBins
\* sets frequencies[index] to newValue and no other frequency, recomputes
\* sum and sumOfSquares, then notifies every registered observer once, in
\* the order of registration, with the recomputed distribution; with any
\* other index the distribution is left as it was and nobody is notified
C23_UpdateSetsOneBinAndNotifiesOnce ==
    result.op = "updateValueAtIndex" =>
        LET before == result.before
            notified == result.notified
        IN  IF result.index >= 0 /\ result.index < Len(before.values)
            THEN /\ histogramData.frequencies[result.index + 1] = result.newValue
                 /\ \A i \in 1..Len(before.values) :
                       i # result.index + 1 =>
                           histogramData.frequencies[i] = before.frequencies[i]
                 /\ Len(histogramData.frequencies) = Len(before.frequencies)
                 /\ histogramData.values = before.values
                 /\ AggregatesMatchFrequencies(histogramData)
                 /\ Len(notified) = Len(result.observers)
                 /\ \A i \in 1..Len(notified) :
                       /\ notified[i].observer = result.observers[i]
                       /\ notified[i].histogramData = histogramData
            ELSE /\ histogramData = before
                 /\ notified = <<>>

\* a bin of a histogram with two observers has been given another frequency,
\* which changes the sum
C23_Witness ==
    /\ result.op = "updateValueAtIndex"
    /\ Len(result.observers) = 2
    /\ result.index = 1
    /\ result.before.frequencies[2] = 2
    /\ result.newValue = 1
    /\ histogramData.sum # result.before.sum
    /\ Len(result.notified) = 2

----------------------------------------------------------------------------
(* Claims about the animation queue.                                       *)

\* C24: the callback of every animateInData(samples, callback) is called once
\* the animations of its samples are complete, also when samples is empty and
\* nothing is being animated: no callback is left waiting when the queue is
\* empty and no bar animation is running, and no callback is called while a
\* sample is still queued or a bar animation is still running
C24_CallbackCalledOnCompletion ==
    /\ (samples = <<>> /\ animationsInFlight = 0) =>
          animationCompletionCallback = NoCallback
    /\ (result.op \in {"animateInData", "animateNextDataPoint"} /\ result.called # <<>>) =>
          (samples = <<>> /\ animationsInFlight = 0)

\* an animateInData step keeps every sample: those counted in a bin, those
\* queued before it and those passed to it are all counted or queued after it
AnimateInDataKeepsSamples ==
    result'.op = "animateInData" =>
        numberOfObservations(histogramData') + Len(samples')
          = numberOfObservations(histogramData) + Len(samples) + Len(result'.newSamples)

\* C28: animateInData called while an animation is running appends its
\* samples to the queue: at most one bar animation runs at any time, and no
\* queued sample is dropped, so every sample passed is counted in a bin or
\* still queued
C28_QueuedSamplesAreKept ==
    /\ [](animationsInFlight <= 1)
    /\ [][AnimateInDataKeepsSamples]_vars

----------------------------------------------------------------------------
(* Claims that compare the two medians.                                    *)

RECURSIVE ObservationsUpTo(_, _)
\* the raw observations of bins 1 .. k of distribution d, each on the center
\* of its bin: values[i] repeated frequencies[i] times
ObservationsUpTo(d, k) ==
    IF k = 0 THEN <<>>
    ELSE ObservationsUpTo(d, k - 1) \o [j \in 1..d.frequencies[k] |-> d.values[k]]

\* C25: for a distribution with at least one observation,
\* HistogramData.median() is StatisticsFunctions.median of the list of its
\* observations, each taken at the center of its bin, also when the number
\* of observations is even and the two middle ones are in different bins
C25_MedianIsMedianOfObservations ==
    (result.op = "median" /\ numberOfObservations(result.this) >= 1) =>
        result.ret.value
          = median(ObservationsUpTo(result.this, Len(result.this.values)))

----------------------------------------------------------------------------
(* Claims about the values sampleMany records.                             *)

\* C26: every value sampleMany records for a draw that selects bin j is
\* values[j] itself when the selected distribution is not "Normal", and
\* within a quarter of a step of values[j] when it is; in both cases
\* binIndexForDataPoint maps the recorded value back to bin j
C26_RecordedValueIsBinValue ==
    result.op = "sampleMany" =>
        \A k \in 1..(result.sampleSize * result.numberOfSamples) :
            LET distribution == result.distribution
                j == FirstBinReaching(distribution, DrawOfLogged(k).n)
            IN  /\ IF selectDistribution = "Normal"
                   THEN Within(Logged(k), distribution.values[j],
                               RDiv(HistogramData_step(distribution), R(4)))
                   ELSE Logged(k) = distribution.values[j]
                /\ binIndexForDataPoint(Logged(k), distribution.values) = R(j - 1)

\* C27: every draw of sample and sampleMany selects a bin that holds
\* observations (frequencies[j] > 0), and a parent population without
\* observations yields no drawn value: sample returns none and sampleMany
\* logs none
C27_DrawsComeFromFilledBins ==
    /\ result.op = "sample" =>
          LET distribution == result.distribution
          IN  /\ numberOfObservations(distribution) = 0 => result.ret.value = <<>>
              /\ \A i \in 1..Len(result.ret.value) :
                    distribution.frequencies[
                        FirstBinReaching(distribution,
                            DrawOf(distribution, StreamAt(result.random, i)).n)] > 0
    /\ result.op = "sampleMany" =>
          LET distribution == result.distribution
          IN  /\ numberOfObservations(distribution) = 0 => sampleValues = result.logBefore
              /\ \A k \in 1..(Len(sampleValues) - Len(result.logBefore)) :
                    distribution.frequencies[
                        FirstBinReaching(distribution, DrawOfLogged(k).n)] > 0

----------------------------------------------------------------------------
(* Claims about the log and the sample histogram.                          *)

\* C29: after any sequence of resetSamples and updateChartsWithSamples the
\* log this.sampleValues has as many entries as the sample histogram has
\* observations, and after resetSamples both are 0
C29_LogMatchesSampleHistogram ==
    /\ Len(sampleValues) = numberOfObservations(histogramData)
    /\ result.op = "resetSamples" =>
          (sampleValues = <<>> /\ numberOfObservations(histogramData) = 0)

====
